---- MODULE Spec2Model ----
(***************************************************************************)
(* Model of the stage loop of "DEP Enrollment/Enrollment.py": the while    *)
(* loop of __main__ that dispatches on argv[5], runs one stage per         *)
(* iteration and either advances argv[5] (argv[4] == "DEP") or sets the    *)
(* halt flag argv[6] = "exit".                                             *)
(*                                                                         *)
(* The OS calls made by the stage functions are the environment: each      *)
(* stage function is modelled by where a fault can strike it (inside or    *)
(* outside its own try block), which decides whether it prints a failure   *)
(* line and returns, or raises into __main__.                              *)
(***************************************************************************)
EXTENDS Integers, Sequences, FiniteSets, TLC

VARIABLES argv4, argv5, argv6, pc, attempted, out, start4, start5, start6,
          config, called

\* The inventory server and the requests create_munki_manifest sends it.
VARIABLES manifest, calls, get_request, requests, created

loopVars == <<argv4, argv5, argv6, pc, attempted, out, start4, start5,
              start6, config, called>>

\* The authorization database and what power_prefs did to it.
VARIABLES rights, macOS_version, set_calls, returned

\* AutoPKG Jenkins.py: main and the loop of autopkg_run.
VARIABLES recipe_list, position, ran, munki_imported_recipes, error_recipes,
          deprecated_recipes, apc, report

\* The effective user id of the process across location_services and
\* autotimezone.
VARIABLES euid, epc, elog

\* harden_ssh statement by statement: remote login, the directory group
\* com.apple.access_ssh and the local variables of the function.
VARIABLES remote_login, access_ssh, ssh_node, ssh_account, hpc, touched,
          ssh_disabled

manifestVars == <<manifest, calls, get_request, requests, created>>

sshVars == <<remote_login, access_ssh, ssh_node, ssh_account, hpc, touched,
            ssh_disabled>>

euidVars == <<euid, epc, elog>>

autopkgVars == <<recipe_list, position, ran, munki_imported_recipes,
                 error_recipes, deprecated_recipes, apc, report>>

prefsVars == <<rights, macOS_version, set_calls, returned>>

\* Everything the stage loop of Enrollment.py does not touch.
toolVars == <<manifestVars, prefsVars, autopkgVars, euidVars, sshVars>>

\* Overrides in the RecipeOverrides directory.
MaxRecipes == 3

vars == <<loopVars, toolVars>>

\* Invocations of a function under test in one behaviour.
MaxCalls == 4

\* Cap on the history of attempts (the program itself never gets near it).
MaxAttempts == 10

(***************************************************************************)
(* The stage names tested by the if/elif chain, in textual order.          *)
(***************************************************************************)
StageOrder ==
    <<"computer", "remotemanagement", "settings", "createmanifest",
      "beautifyadmin", "directorybinding", "munki", "sysprefs">>

NumStages == Len(StageOrder)

StageSet == {StageOrder[i] : i \in 1..NumStages}

StageIndex(s) == CHOOSE i \in 1..NumStages : StageOrder[i] = s

\* Values of argv[4]: only the exact string "DEP" is tested by the code.
Modes == {"DEP", "dep", "single"}

\* Values argv[5] can be started with: the 8 stages and unrecognized names.
StartStages == StageSet \cup {"bogus", ""}

\* Values argv[6] can be started with; "<absent>": argv has no element 6.
HaltFlags == {"", "exit", "<absent>"}

(***************************************************************************)
(* The provisioning configuration: the module-level variables assigned in  *)
(* __main__ before the loop and read by the stage functions.               *)
(***************************************************************************)
NoConfig ==
    [prefix |-> "<unset>", computer_name |-> <<>>, local_node |-> "<unset>",
     mwa_address |-> "<unset>", admin_list |-> <<>>,
     admins_to_prepare |-> {}]

\* Serial numbers the IORegistry can report.
Serials == {"C02AAA", "C02BBB"}

\* '{0:}-{1:}'.format(prefix, serial_number)
build_computer_name(prefix, serial) == <<prefix, "-", serial>>

\* ODNode.nodeWithSession_name_error_ returns (node, error): on failure the
\* node is None and the error, bound to _, is dropped.
connect_local(reachable) == IF reachable THEN "node" ELSE "None"

BuildConfig(serial, reachable) ==
    [prefix |-> "Your Prefix Here",
     computer_name |-> build_computer_name("Your Prefix Here", serial),
     local_node |-> connect_local(reachable),
     mwa_address |-> "https://your.address.here:portnumber",
     admin_list |-> <<"admin1", "admin2">>,
     admins_to_prepare |-> {"admin1", "admin2"}]

\* What a stage leaves of the configuration: no stage function assigns or
\* mutates one of its variables.
ConfigAfter_PopsAdmin(stage, cfg) ==
    IF stage = "remotemanagement"
    THEN [cfg EXCEPT !.admin_list = Tail(@)]
    ELSE cfg

ConfigAfter(stage, cfg) == cfg

(***************************************************************************)
(* Exceptions.  "CalledProcessError" is what check_output raises on a      *)
(* non-zero exit; "OSError" stands for every other subclass of Exception   *)
(* (check_output raises it when the executable is missing).                *)
(***************************************************************************)
Catches(handler, kind) ==
    \/ handler = "Exception"
    \/ handler = kind

\* What a call leaves behind: the lines it printed and what it raised.
Result(p, r) == [prints |-> p, raised |-> r]

\* Two calls in sequence in one try block: the second runs only if the
\* first returned.
Then(r1, r2) ==
    IF r1.raised # "none" THEN r1
    ELSE Result(r1.prints \o r2.prints, r2.raised)

\* A function or command that was started, and whether a fault struck it.
Call(name, failed) == [name |-> name, failed |-> failed]

\* What two calls in sequence in one try block start.
ThenCalls(c1, r1, c2) ==
    IF r1.raised # "none" THEN <<c1>> ELSE <<c1, c2>>

\* The commands of a straight-line function that are started when the
\* failAt-th of them raises (failAt > Len(commands): none does).
Started(commands, failAt) ==
    [i \in 1..(IF failAt < Len(commands) THEN failAt ELSE Len(commands)) |->
        Call(commands[i], i = failAt)]

(***************************************************************************)
(* The stage functions.  f names where the fault strikes ("none": nowhere) *)
(***************************************************************************)
set_computer_name(f) ==
    CASE f = "none"   -> Result(<<>>, "none")
      [] f = "create" -> Result(<<>>, "OSError")
      [] f = "set"    -> Result(<<"failed">>, "none")

\* harden_ard without its own try block.
harden_ard_Raises(f) ==
    IF f = "none" THEN Result(<<>>, "none")
    ELSE Result(<<>>, "CalledProcessError")

harden_ard(f) ==
    IF f = "none" THEN Result(<<>>, "none")
    ELSE Result(<<"failed">>, "none")

harden_ssh(local_node, f) ==
    IF f = "none" /\ local_node # "None" THEN Result(<<>>, "none")
    ELSE Result(<<"failed">>, "none")

settings_setup(f1, f2) ==
    Result((IF f1 = "none" THEN <<>> ELSE <<"failed">>)
           \o (IF f2 = "none" THEN <<>> ELSE <<"text">>), "none")

\* get_request is modelled by the two substrings the function looks for.
Markers == {"production", "failed"}

\* site: the check_output call that raises ("get", "post") or "none";
\* sent: the requests that went out.
create_munki_manifest_PostsUnlessFound(resp, site, kind) ==
    IF site = "get"
    THEN [prints |-> <<>>, raised |-> kind, sent |-> <<"GET">>]
    ELSE IF "production" \in resp
    THEN [prints |-> <<>>, raised |-> "none", sent |-> <<"GET">>]
    ELSE [prints |-> <<>>,
          raised |-> IF site = "post" THEN kind ELSE "none",
          sent |-> <<"GET", "POST">>]

create_munki_manifest(resp, site, kind) ==
    IF site = "get"
    THEN [prints |-> <<>>, raised |-> kind, sent |-> <<"GET">>]
    ELSE IF "production" \in resp
    THEN [prints |-> <<>>, raised |-> "none", sent |-> <<"GET">>]
    ELSE IF "failed" \in resp
    THEN [prints |-> <<>>,
          raised |-> IF site = "post" THEN kind ELSE "none",
          sent |-> <<"GET", "POST">>]
    ELSE [prints |-> <<>>, raised |-> "none", sent |-> <<"GET">>]

beautify_admin_accounts(cfg, f) ==
    IF cfg.local_node = "None" THEN Result(<<>>, "OSError")
    ELSE IF f = "none" THEN Result(<<>>, "none") ELSE Result(<<>>, f)

bind_ead(f) ==
    IF f = "none" THEN Result(<<>>, "none") ELSE Result(<<>>, f)

\* The commands of munki_download_and_install, in the order of the code.
\* The download URL is read from the output of the first one.
MunkiCommands == <<"curl releases", "curl download", "installer",
                   "managedsoftwareupdate">>

MunkiSites == {"releases", "parse", "download", "install", "bootstrap"}

\* Every command in a try block of its own.
munki_download_and_install_KeepsGoing(site, kind) ==
    [prints |-> <<>>,
     raised |-> "none",
     ran |-> [i \in 1..Len(MunkiCommands) |->
                 Call(MunkiCommands[i],
                      \/ i = 1 /\ site = "releases"
                      \/ i = 2 /\ site = "download"
                      \/ i = 3 /\ site = "install"
                      \/ i = 4 /\ site = "bootstrap")]]

\* site: the statement that raises ("parse": json_loads or the subscripts
\* after the first command), or "none".  ran: the commands started.
munki_download_and_install(site, kind) ==
    CASE site = "releases"  ->
            [prints |-> <<>>, raised |-> kind,
             ran |-> Started(MunkiCommands, 1)]
      [] site = "parse"     ->
            [prints |-> <<>>, raised |-> "OSError",
             ran |-> <<Call(MunkiCommands[1], FALSE)>>]
      [] site = "download"  ->
            [prints |-> <<>>, raised |-> kind,
             ran |-> Started(MunkiCommands, 2)]
      [] site = "install"   ->
            [prints |-> <<>>, raised |-> kind,
             ran |-> Started(MunkiCommands, 3)]
      [] site = "bootstrap" ->
            [prints |-> <<>>, raised |-> kind,
             ran |-> Started(MunkiCommands, 4)]
      [] site = "none"      ->
            [prints |-> <<>>, raised |-> "none",
             ran |-> Started(MunkiCommands, Len(MunkiCommands) + 1)]

system_prefs_to_change ==
    << "system.preferences",
       "system.preferences.datetime",
       "system.preferences.timemachine",
       "system.preferences.energysaver",
       "system.preferences.network" >>

Rights == {system_prefs_to_change[i] : i \in DOMAIN system_prefs_to_change}

\* StrictVersion compares the numbers of a version, not its text.
VersionLess_AsText(a, b) ==
    LET text(n) == IF n < 10 THEN <<n>> ELSE <<n \div 10, n % 10>>
        tless(x, y) ==
            \/ \E k \in 1..Len(x) : /\ k <= Len(y)
                                    /\ SubSeq(x, 1, k - 1) = SubSeq(y, 1, k - 1)
                                    /\ x[k] < y[k]
            \/ Len(x) < Len(y) /\ x = SubSeq(y, 1, Len(x))
    IN  \/ tless(text(a[1]), text(b[1]))
        \/ a[1] = b[1] /\ tless(text(a[2]), text(b[2]))
        \/ a[1] = b[1] /\ a[2] = b[2] /\ tless(text(a[3]), text(b[3]))

VersionLess(a, b) ==
    \/ a[1] < b[1]
    \/ a[1] = b[1] /\ a[2] < b[2]
    \/ a[1] = b[1] /\ a[2] = b[2] /\ a[3] < b[3]

Yosemite == <<10, 10, 0>>

\* The test power_prefs makes on a right before it writes it.
Locked_ByGroupOnly(preference, db) == db.group = "admin"

Locked(preference, db) ==
    IF preference = "system.preferences.datetime"
    THEN ~db.shared
    ELSE db.group = "admin"

Unlocked(preference, db) ==
    IF preference = "system.preferences.datetime"
    THEN [db EXCEPT !.shared = TRUE]
    ELSE [db EXCEPT !.group = "everyone"]

\* The loop of power_prefs from its i-th right on.  os: macOS_version;
\* table: the authorization database; missing: a right
\* authorization_right_get returns None for (subscripting it raises), or
\* "none".  sets: the rights authorization_right_set was called on.
RECURSIVE power_prefs_from(_, _, _, _)
power_prefs_from(i, os, table, missing) ==
    IF i > Len(system_prefs_to_change)
    THEN [prints |-> <<>>, raised |-> "none", table |-> table, sets |-> <<>>]
    ELSE IF VersionLess(os, Yosemite)
    THEN [prints |-> <<"failed">>, raised |-> "none", table |-> table,
          sets |-> <<>>]
    ELSE LET preference == system_prefs_to_change[i]
         IN  IF preference = missing
             THEN [prints |-> <<>>, raised |-> "OSError", table |-> table,
                   sets |-> <<>>]
             ELSE LET db == table[preference]
                      write == Locked(preference, db)
                      rest == power_prefs_from(i + 1, os,
                                 IF write
                                 THEN [table EXCEPT
                                         ![preference] =
                                             Unlocked(preference, db)]
                                 ELSE table,
                                 missing)
                  IN  [prints |-> <<IF write THEN "completed"
                                    ELSE "already">> \o rest.prints,
                       raised |-> rest.raised,
                       table |-> rest.table,
                       sets |-> (IF write THEN <<preference>> ELSE <<>>)
                                   \o rest.sets]

power_prefs(os, table, missing) == power_prefs_from(1, os, table, missing)

\* Two authorization databases a freshly installed and an already
\* prepared machine come with.
FactoryRights == [r \in Rights |-> [shared |-> FALSE, group |-> "admin"]]

PreparedRights == [r \in Rights |-> [shared |-> TRUE, group |-> "everyone"]]

Mavericks == <<10, 9, 5>>

Catalina == <<10, 15, 7>>

\* seteuid of a process whose real and saved user ids are root: going back
\* to root is always permitted, anything else only from root.
SetEuidPermitted(from, to) == from = "root" \/ to = "root"

Returned(prints, raised, id) ==
    [prints |-> prints, raised |-> raised, euid |-> id]

\* from: the effective user id at the call.  site: "enabled" (location
\* services are already on), "none", or the statement that raises:
\* "status" (locationServicesEnabled, before the try), "getpwnam",
\* "seteuid", "write" (CFPreferencesSetValue), "kickstart".
location_services(from, site, kind) ==
    CASE site = "status"   -> Returned(<<>>, kind, from)
      [] site = "enabled"  -> Returned(<<"already">>, "none", from)
      [] site = "getpwnam" -> Returned(<<"failed">>, "none", from)
      [] site = "seteuid" \/ ~SetEuidPermitted(from, "_locationd") ->
                              Returned(<<"failed">>, "none", from)
      [] site = "write"    -> Returned(<<"failed">>, "none", "_locationd")
      [] site = "kickstart" -> Returned(<<"failed">>, "none", "root")
      [] OTHER             -> Returned(<<"completed">>, "none", "root")

LocationSites ==
    {"enabled", "none", "status", "getpwnam", "seteuid", "write",
     "kickstart"}

\* site: "none" or the statement that raises inside the try: "getpwnam",
\* "seteuid", "write" (CFPreferencesSetAppValue), "synchronize"
\* (CFPreferencesSynchronize), "kickstart".  The two remove calls swallow
\* their errors.
autotimezone(from, site, kind) ==
    CASE site = "getpwnam" -> Returned(<<"failed">>, "none", from)
      [] site = "seteuid" \/ ~SetEuidPermitted(from, "_timed") ->
                              Returned(<<"failed">>, "none", from)
      [] site \in {"write", "synchronize"} ->
                              Returned(<<"failed">>, "none", "_timed")
      [] site = "kickstart" -> Returned(<<"failed">>, "none", "root")
      [] OTHER             -> Returned(<<"completed">>, "none", "root")

TimezoneSites ==
    {"none", "getpwnam", "seteuid", "write", "synchronize", "kickstart"}

RaiseKinds == {"CalledProcessError", "OSError"}

(***************************************************************************)
(* Printed lines.                                                          *)
(***************************************************************************)
Line(stage, mark, by) == [stage |-> stage, mark |-> mark, by |-> by]

FuncLines(stage, prints) ==
    [i \in 1..Len(prints) |-> Line(stage, prints[i], "function")]

(***************************************************************************)
(* The tail of every branch.                                               *)
(***************************************************************************)
Halt ==
    /\ argv6' = "exit"
    /\ argv5' = argv5
    /\ argv4' = argv4

Advance_IgnoreMode(next) ==
    /\ argv5' = next
    /\ argv6' = argv6
    /\ argv4' = argv4

Advance_WritesMode(next) ==
    IF argv4 = "DEP"
    THEN /\ argv4' = next
         /\ argv5' = argv5
         /\ argv6' = argv6
    ELSE Halt

Advance_AnyCase(next) ==
    IF argv4 \in {"DEP", "dep"}
    THEN /\ argv5' = next
         /\ argv6' = argv6
         /\ argv4' = argv4
    ELSE Halt

Advance(next) ==
    IF argv4 = "DEP"
    THEN /\ argv5' = next
         /\ argv6' = argv6
         /\ argv4' = argv4
    ELSE Halt

next_computer_Same == "computer"
next_computer == "remotemanagement"
next_remotemanagement == "settings"
next_settings_Skip == "beautifyadmin"
next_settings == "createmanifest"
next_createmanifest == "beautifyadmin"
next_beautifyadmin == "directorybinding"
next_directorybinding_Back == "computer"
next_directorybinding == "munki"
next_munki_Back == "directorybinding"
next_munki == "sysprefs"

(***************************************************************************)
(* One branch of the if/elif chain: try the stage, print the outcome line, *)
(* then advance or halt.  An exception the handler does not catch leaves   *)
(* the loop (and the program) with argv untouched.                         *)
(***************************************************************************)
\* called holds what the latest attempt of a stage started, in order.
Calls(started) == called' = started

Attempt(stage, hit) ==
    /\ pc = "body"
    /\ argv5 = stage
    /\ Len(attempted) < MaxAttempts
    /\ attempted' = Append(attempted, [stage |-> stage, hit |-> hit])
    /\ config' = ConfigAfter(stage, config)
    /\ UNCHANGED <<start4, start5, start6>>
    /\ UNCHANGED toolVars

TryStage_HaltsOnFailure(stage, res, handler, next) ==
    IF res.raised = "none"
    THEN /\ out' = out \o FuncLines(stage, res.prints)
                       \o <<Line(stage, "completed", "main")>>
         /\ Advance(next)
         /\ pc' = "test"
    ELSE IF Catches(handler, res.raised)
    THEN /\ out' = out \o FuncLines(stage, res.prints)
                       \o <<Line(stage, "failed", "main")>>
         /\ Halt
         /\ pc' = "test"
    ELSE /\ out' = out \o FuncLines(stage, res.prints)
         /\ pc' = "aborted"
         /\ UNCHANGED <<argv4, argv5, argv6>>

TryStage(stage, res, handler, next) ==
    IF res.raised = "none"
    THEN /\ out' = out \o FuncLines(stage, res.prints)
                       \o <<Line(stage, "completed", "main")>>
         /\ Advance(next)
         /\ pc' = "test"
    ELSE IF Catches(handler, res.raised)
    THEN /\ out' = out \o FuncLines(stage, res.prints)
                       \o <<Line(stage, "failed", "main")>>
         /\ Advance(next)
         /\ pc' = "test"
    ELSE /\ out' = out \o FuncLines(stage, res.prints)
         /\ pc' = "aborted"
         /\ UNCHANGED <<argv4, argv5, argv6>>

\* The inventory server when the function under test is not running.
ManifestIdle ==
    /\ manifest = "absent"
    /\ calls = 0
    /\ get_request = {}
    /\ requests = <<>>
    /\ created = 0

PrefsIdle ==
    /\ rights = FactoryRights
    /\ macOS_version = Catalina
    /\ set_calls = <<>>
    /\ returned = ""

NoReport == [software |-> <<>>, error |-> <<>>, deprecated |-> <<>>]

AutopkgIdle ==
    /\ recipe_list = <<>>
    /\ position = 1
    /\ ran = <<>>
    /\ munki_imported_recipes = <<>>
    /\ error_recipes = <<>>
    /\ deprecated_recipes = <<>>
    /\ apc = "off"
    /\ report = NoReport

EuidIdle ==
    /\ euid = "root"
    /\ epc = "off"
    /\ elog = <<>>

\* A group record: where it comes from ("old": it was there before the
\* call, "fresh": createRecord made it, "missing": there is none), the
\* accounts in its membership, and whether it was synchronized.
Group(origin, members, synchronized) ==
    [origin |-> origin, members |-> members, synchronized |-> synchronized]

SshIdle ==
    /\ remote_login = TRUE
    /\ access_ssh = Group("missing", {}, FALSE)
    /\ ssh_node = "node"
    /\ ssh_account = 1
    /\ hpc = "idle"
    /\ touched = FALSE
    /\ ssh_disabled = FALSE

ToolsIdle ==
    /\ ManifestIdle
    /\ PrefsIdle
    /\ AutopkgIdle
    /\ EuidIdle
    /\ SshIdle

Init ==
    /\ ToolsIdle
    /\ argv4 \in Modes
    /\ argv5 \in StartStages
    /\ argv6 \in HaltFlags
    /\ pc = "setup"
    /\ attempted = <<>>
    /\ out = <<>>
    /\ called = <<>>
    /\ start4 = argv4
    /\ start5 = argv5
    /\ start6 = argv6
    /\ config = NoConfig

(***************************************************************************)
(* __main__ before the loop: the configuration variables are assigned, and *)
(* the while condition is evaluated for the first time.  Nothing here is   *)
(* inside a try block: an exception ends the program.  f: "build":         *)
(* build_computer_name raises; "connect": connect_local raises;            *)
(* "unreachable": the directory node cannot be opened and the call returns *)
(* (None, error).  A missing argv[6] raises IndexError in the while test.  *)
(***************************************************************************)
Setup ==
    /\ pc = "setup"
    /\ \E f \in {"none", "build", "connect", "unreachable"},
          serial \in Serials :
         LET built == BuildConfig(serial, f # "unreachable")
         IN  CASE f = "build" ->
                    /\ config' = [config EXCEPT !.prefix = built.prefix]
                    /\ pc' = "fatal"
               [] f = "connect" ->
                    /\ config' = [config EXCEPT
                                      !.prefix = built.prefix,
                                      !.computer_name = built.computer_name]
                    /\ pc' = "fatal"
               [] OTHER ->
                    /\ config' = built
                    /\ pc' = IF argv6 = "<absent>" THEN "fatal" ELSE "test"
    /\ UNCHANGED <<argv4, argv5, argv6, attempted, out,
                   start4, start5, start6, called>>
    /\ UNCHANGED toolVars

LoopTest_NoGuard ==
    /\ pc = "test"
    /\ pc' = "body"
    /\ UNCHANGED <<argv4, argv5, argv6, attempted, out,
                   start4, start5, start6, config, called>>
    /\ UNCHANGED toolVars

LoopTest ==
    /\ pc = "test"
    /\ argv6 # "exit"
    /\ pc' = "body"
    /\ UNCHANGED <<argv4, argv5, argv6, attempted, out,
                   start4, start5, start6, config, called>>
    /\ UNCHANGED toolVars

LoopExit ==
    /\ pc = "test"
    /\ argv6 = "exit"
    /\ pc' = "done"
    /\ UNCHANGED <<argv4, argv5, argv6, attempted, out,
                   start4, start5, start6, config, called>>
    /\ UNCHANGED toolVars

Branch_computer ==
    \E f \in {"none", "create", "set"} :
        /\ Attempt("computer", f # "none")
        /\ Calls(<<Call("set_computer_name", f # "none")>>)
        /\ TryStage("computer", set_computer_name(f), "Exception",
                    next_computer)

Branch_remotemanagement ==
    \E fa \in {"none", "kickstart"}, fs \in {"none", "ssh"} :
        /\ Attempt("remotemanagement",
                   fa # "none" \/ fs # "none" \/ config.local_node = "None")
        /\ Calls(ThenCalls(Call("harden_ard", fa # "none"), harden_ard(fa),
                           Call("harden_ssh",
                                fs # "none" \/ config.local_node = "None")))
        /\ TryStage("remotemanagement",
                    Then(harden_ard(fa),
                         harden_ssh(config.local_node, fs)), "Exception",
                    next_remotemanagement)

Branch_settings ==
    \E f1 \in {"none", "ntp"}, f2 \in {"none", "daemon"} :
        /\ Attempt("settings", f1 # "none" \/ f2 # "none")
        /\ Calls(<<Call("settings_setup", f1 # "none" \/ f2 # "none")>>)
        /\ TryStage("settings", settings_setup(f1, f2), "Exception",
                    next_settings)

Branch_createmanifest ==
    \E resp \in SUBSET Markers, site \in {"none", "get", "post"},
       kind \in RaiseKinds :
        LET res == create_munki_manifest(resp, site, kind)
        IN  /\ Attempt("createmanifest", res.raised # "none")
            /\ Calls(<<Call("create_munki_manifest", res.raised # "none")>>)
            /\ TryStage("createmanifest", res, "Exception",
                        next_createmanifest)

Branch_beautifyadmin ==
    \E f \in {"none"} \cup RaiseKinds :
        /\ Attempt("beautifyadmin",
                   f # "none" \/ config.local_node = "None")
        /\ Calls(<<Call("beautify_admin_accounts",
                        f # "none" \/ config.local_node = "None")>>)
        /\ TryStage("beautifyadmin",
                    beautify_admin_accounts(config, f), "Exception",
                    next_beautifyadmin)

Branch_directorybinding ==
    \E f \in {"none"} \cup RaiseKinds :
        /\ Attempt("directorybinding", f # "none")
        /\ Calls(<<Call("jamf policy", f # "none")>>)
        /\ TryStage("directorybinding", bind_ead(f), "CalledProcessError",
                    next_directorybinding)

Branch_munki ==
    \E site \in {"none"} \cup MunkiSites, kind \in RaiseKinds :
        LET res == munki_download_and_install(site, kind)
        IN  /\ Attempt("munki", site # "none")
            /\ Calls(<<Call("munki_download_and_install", site # "none")>>
                         \o res.ran)
            /\ TryStage("munki", res, "Exception", next_munki)

\* The except clause around power_prefs (line 666).
sysprefs_handler_Narrow == "CalledProcessError"

sysprefs_handler == "Exception"

Branch_sysprefs ==
    \E fp \in { <<Catalina, FactoryRights, "none">>,
                 <<Catalina, PreparedRights, "none">>,
                 <<Mavericks, FactoryRights, "none">>,
                 <<Catalina, FactoryRights, "system.preferences">> },
       fl \in {"enabled", "none", "status", "write"},
       ft \in {"none", "kickstart"} :
        LET pp == power_prefs(fp[1], fp[2], fp[3])
            ppCall == Call("power_prefs", fp[1] = Mavericks \/ fp[3] # "none")
            ls == location_services("root", fl, "OSError")
            lsCall == Call("location_services", fl \in {"status", "write"})
            tz == autotimezone(ls.euid, ft, "CalledProcessError")
            tzCall == Call("autotimezone", tz.prints = <<"failed">>)
            head == out \o FuncLines("sysprefs", pp.prints)
        IN  /\ Attempt("sysprefs",
                       fp[1] = Mavericks \/ fp[3] # "none"
                                   \/ fl \in {"status", "write"}
                                   \/ ft # "none")
            /\ IF pp.raised # "none" /\ ~Catches(sysprefs_handler, pp.raised)
               THEN /\ out' = head
                    /\ Calls(<<ppCall>>)
                    /\ pc' = "aborted"
                    /\ UNCHANGED <<argv4, argv5, argv6>>
               ELSE LET caught == IF pp.raised = "none" THEN <<>>
                                  ELSE <<Line("sysprefs", "failed", "main")>>
                        mid == head \o caught
                                    \o FuncLines("sysprefs", ls.prints)
                    IN  IF ls.raised = "none"
                        THEN /\ out' = mid \o FuncLines("sysprefs", tz.prints)
                             /\ Calls(<<ppCall, lsCall, tzCall>>)
                             /\ Halt
                             /\ pc' = "test"
                        ELSE /\ out' = mid
                             /\ Calls(<<ppCall, lsCall>>)
                             /\ pc' = "aborted"
                             /\ UNCHANGED <<argv4, argv5, argv6>>

NoBranch ==
    /\ pc = "body"
    /\ argv5 \notin StageSet
    /\ pc' = "test"
    /\ UNCHANGED <<argv4, argv5, argv6, attempted, out,
                   start4, start5, start6, config, called>>
    /\ UNCHANGED toolVars

Next ==
    \/ Setup
    \/ LoopTest
    \/ LoopExit
    \/ Branch_computer
    \/ Branch_remotemanagement
    \/ Branch_settings
    \/ Branch_createmanifest
    \/ Branch_beautifyadmin
    \/ Branch_directorybinding
    \/ Branch_munki
    \/ Branch_sysprefs
    \/ NoBranch

Spec == Init /\ [][Next]_vars

\* The interpreter keeps executing the program: a sequential loop.
FairSpec == Spec /\ WF_vars(Next)

(***************************************************************************)
(* create_munki_manifest invoked again and again against one inventory     *)
(* server (an operator re-running the createmanifest stage).               *)
(*   manifest: what the server holds for the host: nothing ("absent"), a   *)
(*   manifest with the production catalog ("production"), or a manifest    *)
(*   without it ("other").                                                 *)
(***************************************************************************)
\* The stage loop when it is not running.
LoopIdle ==
    /\ argv4 = "single"
    /\ argv5 = "createmanifest"
    /\ argv6 = ""
    /\ pc = "off"
    /\ attempted = <<>>
    /\ out = <<>>
    /\ called = <<>>
    /\ start4 = argv4
    /\ start5 = argv5
    /\ start6 = argv6
    /\ config = BuildConfig("C02AAA", TRUE)

\* What the server answers to the GET: a manifest is returned as its JSON
\* (the one this function creates lists the catalog 'production'); for a
\* missing manifest mwa2 answers with a 'failed' result, and anything in
\* between (a proxy, an error page) may answer with neither.
Answers(m) ==
    CASE m = "production" -> {{"production"}, {"production", "failed"}}
      [] m = "other"      -> {{}}
      [] m = "absent"     -> {{"failed"}, {}}

ManifestInit ==
    /\ LoopIdle
    /\ PrefsIdle
    /\ AutopkgIdle
    /\ EuidIdle
    /\ SshIdle
    /\ manifest \in {"absent", "production", "other"}
    /\ calls = 0
    /\ get_request = {}
    /\ requests = <<>>
    /\ created = 0

\* One invocation; requests gets the list of what it sent.  accepted: the server stores the POSTed manifest (curl
\* exits 0 whatever the HTTP status is).
ManifestCall ==
    /\ calls < MaxCalls
    /\ \E site \in {"none", "get", "post"}, kind \in RaiseKinds,
          accepted \in BOOLEAN :
         \E resp \in (IF site = "get" THEN {{}} ELSE Answers(manifest)) :
            LET res == create_munki_manifest(resp, site, kind)
                stored == /\ res.sent = <<"GET", "POST">>
                          /\ res.raised = "none"
                          /\ accepted
            IN  /\ calls' = calls + 1
                /\ get_request' = resp
                /\ requests' = Append(requests, res.sent)
                /\ manifest' = IF stored THEN "production" ELSE manifest
                /\ created' = IF stored THEN created + 1 ELSE created
    /\ UNCHANGED loopVars
    /\ UNCHANGED prefsVars
    /\ UNCHANGED autopkgVars
    /\ UNCHANGED euidVars
    /\ UNCHANGED sshVars

\* The manifest is removed on the server between two invocations.
ManifestRemoved ==
    /\ manifest # "absent"
    /\ calls < MaxCalls
    /\ manifest' = "absent"
    /\ UNCHANGED <<calls, get_request, requests, created>>
    /\ UNCHANGED loopVars
    /\ UNCHANGED prefsVars
    /\ UNCHANGED autopkgVars
    /\ UNCHANGED euidVars
    /\ UNCHANGED sshVars

ManifestNext ==
    \/ ManifestCall
    \/ ManifestRemoved

ManifestSpec == ManifestInit /\ [][ManifestNext]_vars

(***************************************************************************)
(* power_prefs invoked again and again on one machine.                     *)
(***************************************************************************)
Groups == {"admin", "everyone"}

Versions == {Mavericks, Yosemite, Catalina, <<11, 0, 0>>}

PrefsInit ==
    /\ LoopIdle
    /\ AutopkgIdle
    /\ EuidIdle
    /\ SshIdle
    /\ manifest = "absent"
    /\ calls = 0
    /\ get_request = {}
    /\ requests = <<>>
    /\ created = 0
    /\ rights \in [Rights -> [shared : BOOLEAN, group : Groups]]
    /\ macOS_version \in Versions
    /\ set_calls = <<>>
    /\ returned = ""

PrefsCall ==
    /\ calls < MaxCalls
    /\ \E missing \in Rights \cup {"none"} :
         LET res == power_prefs(macOS_version, rights, missing)
         IN  /\ rights' = res.table
             /\ set_calls' = res.sets
             /\ returned' = IF res.raised # "none" THEN "raised"
                             ELSE IF res.prints = <<"failed">> THEN "refused"
                             ELSE "normal"
    /\ calls' = calls + 1
    /\ UNCHANGED macOS_version
    /\ UNCHANGED <<manifest, get_request, requests, created>>
    /\ UNCHANGED loopVars
    /\ UNCHANGED autopkgVars
    /\ UNCHANGED euidVars
    /\ UNCHANGED sshVars

PrefsNext == PrefsCall

PrefsSpec == PrefsInit /\ [][PrefsNext]_vars

(***************************************************************************)
(* AutoPKG Jenkins.py.  A recipe is named by the place of its override in  *)
(* the sorted directory listing; the three lists hold the recipes their    *)
(* entries were made for.  A text is a tuple: its leading sentence, and    *)
(* the bulleted items if it has any.                                       *)
(*   apc: "start" (main before autopkg_run), "loop" (the for loop of       *)
(*   autopkg_run), "notify" (autopkg_run has returned), "sent" (the        *)
(*   notification is posted), "died" (an exception left autopkg_run and    *)
(*   main, which catch nothing).                                           *)
(***************************************************************************)
RecipeName(i) == <<"override", i>>

EmptyName == <<>>

build_recipe_list(n) == [i \in 1..n |-> RecipeName(i)]

build_bulleted_list(leading_text, output_list) ==
    <<leading_text, output_list>>

\* What one 'autopkg run' of a recipe gives: a non-zero exit ("error"), or
\* a report plist with a deprecation summary, an importer summary, both,
\* or neither.
Outcomes == {"error", "deprecated", "imported", "both", "nothing"}

AutopkgInit ==
    /\ LoopIdle
    /\ ManifestIdle
    /\ PrefsIdle
    /\ EuidIdle
    /\ SshIdle
    /\ recipe_list \in {build_recipe_list(n) : n \in 0..MaxRecipes}
    /\ position = 1
    /\ ran = <<>>
    /\ munki_imported_recipes = <<>>
    /\ error_recipes = <<>>
    /\ deprecated_recipes = <<>>
    /\ apc = "start"
    /\ report = NoReport

AutopkgFrame ==
    /\ UNCHANGED loopVars
    /\ UNCHANGED manifestVars
    /\ UNCHANGED prefsVars
    /\ UNCHANGED euidVars
    /\ UNCHANGED sshVars

\* main up to the call of autopkg_run.
autopkg_prepare ==
    /\ apc = "start"
    /\ apc' = "loop"
    /\ UNCHANGED <<recipe_list, position, ran, munki_imported_recipes,
                   error_recipes, deprecated_recipes, report>>
    /\ AutopkgFrame

\* One iteration of the for loop.
autopkg_run_recipe_BreaksOnError ==
    /\ apc = "loop"
    /\ position <= Len(recipe_list)
    /\ \E outcome \in Outcomes :
         LET recipe == recipe_list[position]
         IN  /\ ran' = Append(ran, [recipe |-> recipe, outcome |-> outcome])
             /\ error_recipes' =
                    IF outcome = "error" THEN Append(error_recipes, recipe)
                    ELSE error_recipes
             /\ deprecated_recipes' =
                    IF outcome \in {"deprecated", "both"}
                    THEN Append(deprecated_recipes, recipe)
                    ELSE deprecated_recipes
             /\ munki_imported_recipes' =
                    IF outcome = "imported"
                    THEN Append(munki_imported_recipes, recipe)
                    ELSE munki_imported_recipes
             /\ position' = IF outcome = "error" THEN Len(recipe_list) + 1
                             ELSE position + 1
    /\ UNCHANGED <<recipe_list, apc, report>>
    /\ AutopkgFrame

autopkg_run_recipe ==
    /\ apc = "loop"
    /\ position <= Len(recipe_list)
    /\ \E outcome \in Outcomes :
         LET recipe == recipe_list[position]
         IN  /\ ran' = Append(ran, [recipe |-> recipe, outcome |-> outcome])
             /\ error_recipes' =
                    IF outcome = "error" THEN Append(error_recipes, recipe)
                    ELSE error_recipes
             /\ deprecated_recipes' =
                    IF outcome \in {"deprecated", "both"}
                    THEN Append(deprecated_recipes, recipe)
                    ELSE deprecated_recipes
             /\ munki_imported_recipes' =
                    IF outcome = "imported"
                    THEN Append(munki_imported_recipes, recipe)
                    ELSE munki_imported_recipes
    /\ position' = position + 1
    /\ UNCHANGED <<recipe_list, apc, report>>
    /\ AutopkgFrame

NoErrorText == <<"No recipes encountered an error.">>

\* The rest of autopkg_run.  error_recipes[0] of an empty list raises
\* IndexError.
autopkg_run_texts ==
    /\ apc = "loop"
    /\ position > Len(recipe_list)
    /\ IF error_recipes = <<>>
       THEN /\ apc' = "died"
            /\ UNCHANGED report
       ELSE /\ apc' = "notify"
            /\ report' =
                 [software |->
                     IF munki_imported_recipes # <<>>
                     THEN build_bulleted_list("imported",
                                              munki_imported_recipes)
                     ELSE <<"No items were imported in the the munki repository">>,
                  error |->
                     IF error_recipes[1] # EmptyName
                     THEN build_bulleted_list("error", error_recipes)
                     ELSE NoErrorText,
                  deprecated |->
                     IF deprecated_recipes # <<>>
                     THEN build_bulleted_list("deprecated",
                                              deprecated_recipes)
                     ELSE <<"No recipes are currently deprecated.">>]
    /\ UNCHANGED <<recipe_list, position, ran, munki_imported_recipes,
                   error_recipes, deprecated_recipes>>
    /\ AutopkgFrame

\* main builds the notification and posts it.
autopkg_notify ==
    /\ apc = "notify"
    /\ apc' = "sent"
    /\ UNCHANGED <<recipe_list, position, ran, munki_imported_recipes,
                   error_recipes, deprecated_recipes, report>>
    /\ AutopkgFrame

AutopkgNext ==
    \/ autopkg_prepare
    \/ autopkg_run_recipe
    \/ autopkg_run_texts
    \/ autopkg_notify

AutopkgSpec == AutopkgInit /\ [][AutopkgNext]_vars

(***************************************************************************)
(* location_services followed by autotimezone in one process started as    *)
(* root: the tail of the sysprefs branch of Enrollment.py and the main of  *)
(* 'Enable LS Auto Time and TimeZone.py'.                                  *)
(*   epc: the call that comes next ("location_services", "autotimezone"),  *)
(*   "end" (both returned) or "died" (an exception left the program).      *)
(*   elog: per call, where the fault struck and what it was.               *)
(***************************************************************************)
EuidInit ==
    /\ LoopIdle
    /\ ManifestIdle
    /\ PrefsIdle
    /\ AutopkgIdle
    /\ SshIdle
    /\ euid = "root"
    /\ epc = "location_services"
    /\ elog = <<>>

EuidFrame ==
    /\ UNCHANGED loopVars
    /\ UNCHANGED manifestVars
    /\ UNCHANGED prefsVars
    /\ UNCHANGED autopkgVars
    /\ UNCHANGED sshVars

Fault(name, site, kind, res) ==
    [name |-> name,
     site |-> site,
     error |-> IF site \in {"none", "enabled"} THEN "none" ELSE kind,
     mark |-> IF res.prints = <<>> THEN "none" ELSE res.prints[1]]

call_location_services ==
    /\ epc = "location_services"
    /\ \E site \in LocationSites, kind \in RaiseKinds :
         LET res == location_services(euid, site, kind)
         IN  /\ euid' = res.euid
             /\ elog' = Append(elog,
                               Fault("location_services", site, kind, res))
             /\ epc' = IF res.raised = "none" THEN "autotimezone"
                        ELSE "died"
    /\ EuidFrame

call_autotimezone ==
    /\ epc = "autotimezone"
    /\ \E site \in TimezoneSites, kind \in RaiseKinds :
         LET res == autotimezone(euid, site, kind)
         IN  /\ euid' = res.euid
             /\ elog' = Append(elog, Fault("autotimezone", site, kind, res))
             /\ epc' = IF res.raised = "none" THEN "end" ELSE "died"
    /\ EuidFrame

EuidNext ==
    \/ call_location_services
    \/ call_autotimezone

EuidSpec == EuidInit /\ [][EuidNext]_vars

(***************************************************************************)
(* harden_ssh, one action per statement of its try block.  check_output    *)
(* raises on a failing command; the OpenDirectory calls are given None for *)
(* their error argument and report a failure in their return value, which  *)
(* the function does not look at; a method called on None raises.  Any     *)
(* exception goes to the except clause, which prints and returns.          *)
(*   hpc: the statement that comes next, or "completed" / "failed" once    *)
(*   the function has returned.                                            *)
(***************************************************************************)
SshInit ==
    /\ LoopIdle
    /\ ManifestIdle
    /\ PrefsIdle
    /\ AutopkgIdle
    /\ EuidIdle
    /\ remote_login \in BOOLEAN
    /\ access_ssh \in {Group("missing", {}, FALSE),
                       Group("old", {"admin1"}, TRUE),
                       Group("old", {"admin1", "admin2"}, TRUE)}
    /\ ssh_node \in {"node", "None"}
    /\ ssh_account = 1
    /\ hpc = "off"
    /\ touched = FALSE
    /\ ssh_disabled \in BOOLEAN

SshFrame ==
    /\ UNCHANGED loopVars
    /\ UNCHANGED manifestVars
    /\ UNCHANGED prefsVars
    /\ UNCHANGED autopkgVars
    /\ UNCHANGED euidVars

\* systemsetup -f -setremotelogin off
ssh_turn_off ==
    /\ hpc = "off"
    /\ \E ok \in BOOLEAN :
         IF ok
         THEN /\ remote_login' = FALSE
              /\ hpc' = IF ssh_node = "None" THEN "failed" ELSE "disabled"
         ELSE /\ hpc' = "failed"
              /\ UNCHANGED remote_login
    /\ UNCHANGED <<access_ssh, ssh_node, ssh_account, touched, ssh_disabled>>
    /\ SshFrame

\* The group com.apple.access_ssh-disabled is looked up and deleted.
ssh_delete_disabled ==
    /\ hpc = "disabled"
    /\ \E ok \in BOOLEAN : ssh_disabled' = (ssh_disabled /\ ~ok)
    /\ hpc' = "delete"
    /\ UNCHANGED <<remote_login, access_ssh, ssh_node, ssh_account, touched>>
    /\ SshFrame

\* The current com.apple.access_ssh group is looked up and deleted.
ssh_delete_current ==
    /\ hpc = "delete"
    /\ \E ok \in BOOLEAN :
         access_ssh' = IF access_ssh.origin # "missing" /\ ok
                       THEN Group("missing", {}, FALSE)
                       ELSE access_ssh
    /\ touched' = (access_ssh.origin # "missing")
    /\ hpc' = "create"
    /\ UNCHANGED <<remote_login, ssh_node, ssh_account, ssh_disabled>>
    /\ SshFrame

\* createRecordWithRecordType_name_attributes_error_: the result is dropped.
ssh_create ==
    /\ hpc = "create"
    /\ \E ok \in BOOLEAN :
         access_ssh' = IF access_ssh.origin = "missing" /\ ok
                       THEN Group("fresh", {}, FALSE)
                       ELSE access_ssh
    /\ touched' = TRUE
    /\ hpc' = "fetch"
    /\ UNCHANGED <<remote_login, ssh_node, ssh_account, ssh_disabled>>
    /\ SshFrame

\* local_ssh is fetched and gets its primary group: None raises.
ssh_fetch ==
    /\ hpc = "fetch"
    /\ hpc' = IF access_ssh.origin = "missing" THEN "failed" ELSE "account"
    /\ UNCHANGED <<remote_login, access_ssh, ssh_node, ssh_account,
                   touched, ssh_disabled>>
    /\ SshFrame

\* One iteration of the loop over admin_list.  found: the user record
\* exists (a method called on None raises otherwise); ok: addValue stored
\* the membership.
ssh_add_account ==
    /\ hpc = "account"
    /\ ssh_account <= Len(config.admin_list)
    /\ \E found \in BOOLEAN, ok \in BOOLEAN :
         IF found
         THEN /\ access_ssh' =
                    IF ok
                    THEN [access_ssh EXCEPT
                            !.members =
                                @ \cup {config.admin_list[ssh_account]},
                            !.synchronized = FALSE]
                    ELSE access_ssh
              /\ ssh_account' = ssh_account + 1
              /\ UNCHANGED hpc
         ELSE /\ hpc' = "failed"
              /\ UNCHANGED <<access_ssh, ssh_account>>
    /\ UNCHANGED <<remote_login, ssh_node, touched, ssh_disabled>>
    /\ SshFrame

\* synchronizeAndReturnError_: the result is dropped.
ssh_synchronize ==
    /\ hpc = "account"
    /\ ssh_account > Len(config.admin_list)
    /\ \E ok \in BOOLEAN :
         access_ssh' = [access_ssh EXCEPT !.synchronized = ok \/ @]
    /\ hpc' = "on"
    /\ UNCHANGED <<remote_login, ssh_node, ssh_account, touched,
                   ssh_disabled>>
    /\ SshFrame

\* systemsetup -f -setremotelogin on
ssh_turn_on ==
    /\ hpc = "on"
    /\ \E ok \in BOOLEAN :
         IF ok
         THEN /\ remote_login' = TRUE
              /\ hpc' = "completed"
         ELSE /\ hpc' = "failed"
              /\ UNCHANGED remote_login
    /\ UNCHANGED <<access_ssh, ssh_node, ssh_account, touched, ssh_disabled>>
    /\ SshFrame

SshNext ==
    \/ ssh_turn_off
    \/ ssh_delete_disabled
    \/ ssh_delete_current
    \/ ssh_create
    \/ ssh_fetch
    \/ ssh_add_account
    \/ ssh_synchronize
    \/ ssh_turn_on

SshSpec == SshInit /\ [][SshNext]_vars

(***************************************************************************)
(* Vocabulary of the properties.                                           *)
(***************************************************************************)
AttemptedStages == [i \in 1..Len(attempted) |-> attempted[i].stage]

IsMainLine(l) == l.by = "main"

\* The stages of the outcome lines printed by the loop itself, in order.
RunLogStages ==
    LET main == SelectSeq(out, IsMainLine)
    IN  [i \in 1..Len(main) |-> main[i].stage]

Terminated == pc \in {"done", "aborted"}

\* The run was started on a recognized stage with the halt flag not set.
ProperStart == start5 \in StageSet /\ start6 # "exit"

RemainingFrom(s) == SubSeq(StageOrder, StageIndex(s), NumStages)

(***************************************************************************)
(* C1: in Chained mode (argv[4] == "DEP") a finished run has attempted     *)
(* exactly the stages from the start stage through sysprefs, in the fixed  *)
(* order, each once, whatever succeeded or failed.                         *)
(***************************************************************************)
C1_ChainedAttemptsAllRemaining ==
    (Terminated /\ argv4 = "DEP" /\ ProperStart)
        => AttemptedStages = RemainingFrom(start5)

(***************************************************************************)
(* C2: in Single mode (argv[4] # "DEP") a run started on a recognized      *)
(* stage never attempts anything but that stage, never attempts it twice,  *)
(* is set to leave the loop as soon as the attempt is over, and has        *)
(* attempted exactly that one stage when it has finished.                  *)
(***************************************************************************)
C2_SingleAttemptsOnlyStart ==
    (argv4 # "DEP" /\ ProperStart) =>
        /\ Len(attempted) <= 1
        /\ \A i \in 1..Len(attempted) : attempted[i].stage = start5
        /\ Len(attempted) = 1 => (argv6 = "exit" \/ pc = "aborted")
        /\ Terminated => AttemptedStages = <<start5>>

C2_Witness ==
    /\ pc = "done"
    /\ argv4 = "single"
    /\ start5 = "createmanifest"
    /\ attempted = <<[stage |-> "createmanifest", hit |-> TRUE]>>

(***************************************************************************)
(* C3: in Chained mode no error of a stage operation ever aborts the run.  *)
(***************************************************************************)
C3_NoStageErrorAborts ==
    argv4 = "DEP" => pc # "aborted"

(***************************************************************************)
(* C4: a run started on an unrecognized stage name can only be at its      *)
(* entry point or have ended with a fatal error: it never enters the loop  *)
(* body or ends normally, and it attempts and records nothing.             *)
(***************************************************************************)
C4_UnknownStartIsFatal ==
    start5 \notin StageSet =>
        /\ pc \in {"setup", "test", "aborted", "fatal"}
        /\ attempted = <<>>
        /\ out = <<>>

(***************************************************************************)
(* C5: a stage whose operation hit an error has a failure line in the      *)
(* output and is never reported by the loop as completed.                  *)
(***************************************************************************)
C5_FailedStageNotCompleted ==
    \A i \in 1..Len(attempted) :
        attempted[i].hit =>
            /\ \E j \in 1..Len(out) :
                   /\ out[j].stage = attempted[i].stage
                   /\ out[j].mark = "failed"
            /\ \A j \in 1..Len(out) :
                   ~ /\ out[j].stage = attempted[i].stage
                     /\ out[j].by = "main"
                     /\ out[j].mark = "completed"

(***************************************************************************)
(* C6: the outcome lines printed by the loop are one per attempted stage,  *)
(* in the order of the attempts.                                           *)
(***************************************************************************)
C6_OneRecordPerAttempt ==
    RunLogStages = AttemptedStages

(***************************************************************************)
(* C7: no stage is attempted twice in a run, and argv[5] only ever moves   *)
(* forward in the fixed order.                                             *)
(***************************************************************************)
NoStageTwice ==
    \A i, j \in 1..Len(attempted) :
        i # j => attempted[i].stage # attempted[j].stage

StageMovesForward ==
    argv5' # argv5 =>
        /\ argv5 \in StageSet
        /\ argv5' \in StageSet
        /\ StageIndex(argv5') > StageIndex(argv5)

C7_NoRetry ==
    [](NoStageTwice) /\ [][StageMovesForward]_vars

C7_Witness ==
    /\ pc = "done"
    /\ Len(attempted) = NumStages
    /\ \E i \in 1..Len(attempted) : attempted[i].hit

(***************************************************************************)
(* C8: every iteration that runs a stage to the end of its branch applies  *)
(* the same rule, whatever the stage's outcome: in Chained mode a stage    *)
(* other than sysprefs is followed by its immediate successor in the fixed *)
(* order with the halt flag untouched; sysprefs sets the halt flag in      *)
(* both modes and leaves argv[5] alone.                                    *)
(***************************************************************************)
BranchReturns == pc = "body" /\ pc' = "test" /\ argv5 \in StageSet

AdvancementRule ==
    BranchReturns =>
        IF argv5 = "sysprefs"
        THEN argv6' = "exit" /\ argv5' = argv5
        ELSE argv4 = "DEP" =>
                /\ argv5' = StageOrder[StageIndex(argv5) + 1]
                /\ argv6' = argv6

C9_Terminates ==
    /\ [](Len(attempted) <= NumStages)
    /\ (start5 \in StageSet) ~> (Terminated \/ pc = "fatal")

C9_Witness ==
    /\ pc = "done"
    /\ start5 = "computer"
    /\ argv4 = "DEP"
    /\ Len(attempted) = NumStages

(***************************************************************************)
(* C10: a run started on an unrecognized stage name terminates normally    *)
(* (unless the setup before the loop already ended the program) and never  *)
(* executes a stage, in either mode.                                       *)
(***************************************************************************)
C10_UnknownStartTerminates ==
    /\ [](start5 \notin StageSet => attempted = <<>>)
    /\ (start5 \notin StageSet) ~> (pc = "done" \/ pc = "fatal")

(***************************************************************************)
(* C11: the mode argv[4] is never written: in every reachable state it     *)
(* equals the value the program was started with.                          *)
(***************************************************************************)
C11_ModeNeverWritten ==
    argv4 = start4

C11_Witness ==
    /\ pc = "done"
    /\ start4 = "DEP"
    /\ argv4 = "DEP"
    /\ start5 = "munki"
    /\ argv5 = "sysprefs"

(***************************************************************************)
(* C12: the decision taken at the end of a branch is a function of the     *)
(* stage and the mode alone.  ModeResolver is that function; every         *)
(* iteration that runs a stage to the end of its branch, in any mode and   *)
(* after any history of outcomes, takes the decision it gives.             *)
(***************************************************************************)
ModeResolver(stage, mode) ==
    IF mode = "DEP" /\ stage # "sysprefs"
    THEN StageOrder[StageIndex(stage) + 1]
    ELSE "terminate"

DecisionTaken ==
    IF argv6' = "exit" THEN "terminate" ELSE argv5'

C13_OneAtATimeInOrder ==
    /\ \A i, j \in 1..Len(attempted) :
           i < j => StageIndex(attempted[i].stage)
                        < StageIndex(attempted[j].stage)
    /\ \A k \in 1..Len(out) :
           \E i \in 1..Len(attempted) : attempted[i].stage = out[k].stage
    /\ \A k, l \in 1..Len(out) :
           k < l => StageIndex(out[k].stage) <= StageIndex(out[l].stage)

C13_Witness ==
    \E i, j \in 1..Len(attempted) :
        /\ i < j
        /\ attempted[i].stage = "computer"
        /\ attempted[j].stage = "directorybinding"

(***************************************************************************)
(* C14: the configuration is completely assigned when the loop starts and  *)
(* no step of the loop changes it.                                         *)
(***************************************************************************)
ConfigIsSet ==
    /\ config.prefix # "<unset>"
    /\ config.computer_name # <<>>
    /\ config.local_node # "<unset>"
    /\ config.mwa_address # "<unset>"
    /\ config.admin_list # <<>>
    /\ config.admins_to_prepare # {}

C14_ConfigReadOnly ==
    /\ [](pc \in {"test", "body", "done", "aborted"} => ConfigIsSet)
    /\ [][pc # "setup" => config' = config]_vars

C14_Witness ==
    /\ pc = "done"
    /\ Len(attempted) = NumStages
    /\ config.admin_list = <<"admin1", "admin2">>
    /\ config.local_node = "node"

(***************************************************************************)
(* C15: when the configuration could not be built (build_computer_name or  *)
(* connect_local failed) or an argument is missing, the program ends with  *)
(* a fatal error before the loop: no stage is ever attempted or recorded.  *)
(***************************************************************************)
SetupFailed ==
    \/ pc = "fatal"
    \/ config.local_node = "None"

C15_SetupErrorIsFatal ==
    SetupFailed => /\ attempted = <<>>
                   /\ out = <<>>

(***************************************************************************)
(* C20: a run started with the halt flag set (argv[6] == "exit") never     *)
(* enters the loop body: no stage is attempted and nothing is printed.     *)
(***************************************************************************)
C20_PresetHaltRunsNothing ==
    start6 = "exit" => /\ pc # "body"
                       /\ attempted = <<>>
                       /\ out = <<>>

C20_Witness ==
    /\ pc = "done"
    /\ start6 = "exit"
    /\ start5 = "computer"
    /\ start4 = "DEP"

(***************************************************************************)
(* C16: an invocation of create_munki_manifest sends at most one POST,     *)
(* after its GET, and only when the GET response says the manifest is      *)
(* absent ('failed' and no 'production'); when the server reports a        *)
(* manifest for the host no POST is sent, so re-invoking the stage never   *)
(* creates a manifest the server already holds.                            *)
(***************************************************************************)
PostsOf(sent) == Len(SelectSeq(sent, LAMBDA m : m = "POST"))

LastSent == requests[Len(requests)]

C16_PostOnlyWhenAbsent ==
    /\ [](/\ \A i \in DOMAIN requests :
                /\ PostsOf(requests[i]) <= 1
                /\ PostsOf(requests[i]) = 1 => requests[i] = <<"GET", "POST">>
          /\ (requests # <<>> /\ PostsOf(LastSent) = 1)
                => /\ "failed" \in get_request
                   /\ "production" \notin get_request
          /\ (requests # <<>> /\ "production" \in get_request)
                => PostsOf(LastSent) = 0)
    /\ [][(calls' = calls + 1 /\ manifest = "production")
             => (PostsOf(requests'[Len(requests')]) = 0
                 /\ created' = created)]_vars

C16_Witness ==
    /\ calls = 2
    /\ created = 1
    /\ manifest = "production"
    /\ requests = << <<"GET", "POST">>, <<"GET">> >>
    /\ "production" \in get_request

(***************************************************************************)
(* C17: power_prefs is idempotent.  After an invocation that returns on a  *)
(* supported OS the datetime right has shared = TRUE and no other listed   *)
(* right has group 'admin'; the invocation after it calls                  *)
(* authorization_right_set on nothing and leaves every right as it is; on  *)
(* an OS below 10.10 an invocation writes no right.                        *)
(***************************************************************************)
C17_PowerPrefsIdempotent ==
    /\ [](returned = "normal"
            => /\ ~VersionLess(macOS_version, Yosemite)
               /\ rights["system.preferences.datetime"].shared
               /\ \A r \in Rights \ {"system.preferences.datetime"} :
                      rights[r].group # "admin")
    /\ [][(calls' = calls + 1 /\ returned = "normal")
             => (set_calls' = <<>> /\ rights' = rights)]_vars
    /\ [][(calls' = calls + 1 /\ macOS_version[1] = 10
                              /\ macOS_version[2] < 10)
             => (set_calls' = <<>> /\ rights' = rights
                 /\ returned' = "refused")]_vars

C17_Witness ==
    /\ calls = 2
    /\ returned = "normal"
    /\ set_calls = <<>>
    /\ rights = PreparedRights

(***************************************************************************)
(* C18: autopkg_run returns its three texts whatever the recipes did: no   *)
(* exception leaves it, and when no recipe failed the error text is 'No    *)
(* recipes encountered an error.' and the notification goes out.           *)
(***************************************************************************)
LoopOver == apc \notin {"off", "start"} /\ position > Len(recipe_list)

C18_RunAlwaysReports ==
    /\ apc # "died"
    /\ (apc \in {"notify", "sent"} /\ error_recipes = <<>>)
          => report.error = NoErrorText

(***************************************************************************)
(* C19: in autopkg_run a failed recipe goes to the error list and the      *)
(* recipes after it are still run; every recipe is run exactly once, in    *)
(* the order of the list, and is in at most one of the three lists.        *)
(***************************************************************************)
Members(list) == {list[i] : i \in DOMAIN list}

NoDuplicates(list) == Cardinality(Members(list)) = Len(list)

C19_EveryRecipeRunOnce ==
    /\ Len(ran) = (IF apc \in {"off", "start"} THEN 0 ELSE position - 1)
    /\ \A i \in DOMAIN ran : ran[i].recipe = recipe_list[i]
    /\ LoopOver => Len(ran) = Len(recipe_list)
    /\ \A i \in DOMAIN ran :
          ran[i].outcome = "error" <=> ran[i].recipe \in Members(error_recipes)
    /\ NoDuplicates(munki_imported_recipes \o error_recipes
                       \o deprecated_recipes)

C19_Witness ==
    /\ LoopOver
    /\ Len(ran) = 3
    /\ ran[1].outcome = "error"
    /\ ran[2].outcome = "imported"
    /\ ran[3].outcome = "both"
    /\ error_recipes = <<RecipeName(1)>>
    /\ munki_imported_recipes = <<RecipeName(2)>>
    /\ deprecated_recipes = <<RecipeName(3)>>

(***************************************************************************)
(* C21: only the exact mode "DEP" chains.  When the branch of a non-final  *)
(* stage reaches its end, any other argv[4] sets the halt flag and leaves  *)
(* argv[5] as it is; "DEP" changes argv[5] and leaves argv[6] as it is.    *)
(***************************************************************************)
NonFinalReturns == BranchReturns /\ argv5 # "sysprefs"

LastIs(stage) ==
    /\ attempted # <<>>
    /\ attempted[Len(attempted)].stage = stage

Names(cs) == [i \in 1..Len(cs) |-> cs[i].name]

C23_SshAttemptedAfterArdFailure ==
    /\ [](LastIs("remotemanagement")
            => Names(called) = <<"harden_ard", "harden_ssh">>)
    /\ [][(pc = "body" /\ argv5 = "remotemanagement"
                       /\ attempted' # attempted)
             => /\ pc' = "test"
                /\ IF argv4 = "DEP"
                   THEN argv5' = "settings" /\ argv6' = argv6
                   ELSE argv6' = "exit" /\ argv5' = argv5]_vars

C23_Witness ==
    /\ LastIs("remotemanagement")
    /\ Len(called) = 2
    /\ called[1].failed
    /\ ~called[2].failed
    /\ argv4 = "DEP"
    /\ argv5 = "settings"
    /\ argv6 = ""
    /\ pc = "test"

(***************************************************************************)
(* C24: in the sysprefs stage location_services is started whether or not  *)
(* power_prefs failed, autotimezone is started once location_services has  *)
(* returned, and when the branch reaches its end the halt flag is set and  *)
(* argv[5] is left alone, whatever the mode.                               *)
(***************************************************************************)
C24_StepsAfterUnlockThenHalt ==
    /\ [](LastIs("sysprefs")
            => IF pc = "aborted"
               THEN Names(called) = <<"power_prefs", "location_services">>
               ELSE Names(called) = <<"power_prefs", "location_services",
                                      "autotimezone">>)
    /\ [][(pc = "body" /\ argv5 = "sysprefs" /\ pc' = "test")
             => /\ argv6' = "exit"
                /\ argv5' = argv5
                /\ argv4' = argv4]_vars

C24_Witness ==
    /\ LastIs("sysprefs")
    /\ Len(called) = 3
    /\ called[1].failed
    /\ \E j \in 1..Len(out) : /\ out[j].stage = "sysprefs"
                              /\ out[j].by = "main"
                              /\ out[j].mark = "failed"
    /\ argv4 = "DEP"
    /\ argv6 = "exit"
    /\ pc = "done"

(***************************************************************************)
(* C26: munki_download_and_install starts its commands in the order        *)
(* releases, download, installer, bootstrap, each only after the one       *)
(* before it succeeded; a failure anywhere starts nothing after it and     *)
(* gives the loop one failure line for the stage and no success line.      *)
(***************************************************************************)
MainLines(stage) ==
    SelectSeq(out, LAMBDA l : l.stage = stage /\ l.by = "main")

C26_MunkiStepsInOrder ==
    LastIs("munki") =>
        LET cmds == Tail(called)
            lines == MainLines("munki")
        IN  /\ called[1].name = "munki_download_and_install"
            /\ Len(cmds) <= Len(MunkiCommands)
            /\ Names(cmds) = SubSeq(MunkiCommands, 1, Len(cmds))
            /\ \A k \in 2..Len(cmds) : ~cmds[k - 1].failed
            /\ (\E k \in 1..Len(cmds) : cmds[k].failed) => called[1].failed
            /\ ~called[1].failed => Len(cmds) = Len(MunkiCommands)
            /\ Len(lines) = 1
            /\ lines[1].mark = (IF called[1].failed THEN "failed"
                                ELSE "completed")

C26_Witness ==
    /\ LastIs("munki")
    /\ Len(called) = 3
    /\ called[2] = Call("curl releases", FALSE)
    /\ called[3] = Call("curl download", TRUE)
    /\ MainLines("munki") = <<Line("munki", "failed", "main")>>
    /\ argv4 = "DEP"
    /\ argv5 = "sysprefs"

(***************************************************************************)
(* C25: location_services and autotimezone return with the effective user  *)
(* id back at root on every path, so the step after each of them starts    *)
(* as root.                                                                *)
(***************************************************************************)
C25_ReturnsAsRoot ==
    epc \in {"autotimezone", "end"} => euid = "root"

(***************************************************************************)
(* C22: once harden_ssh has touched the access group, remote login is on   *)
(* only with a group that was created afresh, holds every account of       *)
(* admin_list and was synchronized: never with the group missing, left     *)
(* over or partly populated.                                               *)
(***************************************************************************)
GroupReady ==
    /\ access_ssh.origin = "fresh"
    /\ access_ssh.members = {config.admin_list[i] :
                                i \in DOMAIN config.admin_list}
    /\ access_ssh.synchronized

C22_LoginOnOnlyWithReadyGroup ==
    (touched /\ remote_login) => GroupReady

====
